---- MODULE Spec2Model ----
(***************************************************************************)
(* Deployment State & Rollback Engine of the multi-tenant orchestrator:    *)
(*   scripts/modules/deployment_state_manager.py  (state store + manager)  *)
(*   scripts/modules/deployment_rollback.py       (snapshots + rollback)   *)
(*                                                                         *)
(* Time is the UTC clock read by datetime.utcnow(), counted in whole       *)
(* seconds: the deployment id and the backup file name are both formatted  *)
(* with "%Y%m%d-%H%M%S", so two readings inside one second give one name.  *)
(* An optional value is the empty tuple (None) or a one-element tuple.     *)
(***************************************************************************)
EXTENDS Naturals, Integers, Sequences, FiniteSets, TLC

VARIABLES clock, state_file, backups, current_state, snapshots, staging, pc,
          last, budget

vars == <<clock, state_file, backups, current_state, snapshots, staging, pc,
          last, budget>>

(* ------------------------------ bounds --------------------------------- *)
MaxClock == 2
MaxOps == 4
MaxFailures == 2
MaxClockRet == 2
MaxSavesRet == 12
MaxClockRT == 1
MaxCallsRT == 3
MaxCallsMgr == 4
MaxCallsSnap == 2
MaxClockSnap == 1
MaxIdSnap == 5
MaxCallsSec == 3
MaxClockRace == 4

\* the second at which the two concurrent rollback invocations begin
RaceStart == 3

(* ------------------------- program constants --------------------------- *)
BackupKeep == 10
SnapshotKeep == 5

(* ------------------------------ values --------------------------------- *)
None == <<>>
Some(x) == <<x>>
Get(o) == o[1]

Managers == {"sm", "rb"}
Tenant == "acme"
Names == {"web"}
Hashes == {"h1", "h2"}
Runtimes == {"docker", "nix"}

DeploymentStatus ==
  {"INITIALIZING", "VALIDATING", "PROVISIONING", "DEPLOYING", "RUNNING",
   "UPDATING", "DEGRADED", "FAILED", "ROLLING_BACK", "ROLLED_BACK"}

DeploymentStatusValue ==
  [s \in DeploymentStatus |->
     CASE s = "INITIALIZING" -> "initializing"
       [] s = "VALIDATING"   -> "validating"
       [] s = "PROVISIONING" -> "provisioning"
       [] s = "DEPLOYING"    -> "deploying"
       [] s = "RUNNING"      -> "running"
       [] s = "UPDATING"     -> "updating"
       [] s = "DEGRADED"     -> "degraded"
       [] s = "FAILED"       -> "failed"
       [] s = "ROLLING_BACK" -> "rolling_back"
       [] s = "ROLLED_BACK"  -> "rolled_back"]

ServiceStatus == {"STARTING", "HEALTHY", "UNHEALTHY", "STOPPED", "UNKNOWN"}

ServiceStatusValue ==
  [s \in ServiceStatus |->
     CASE s = "STARTING"  -> "starting"
       [] s = "HEALTHY"   -> "healthy"
       [] s = "UNHEALTHY" -> "unhealthy"
       [] s = "STOPPED"   -> "stopped"
       [] s = "UNKNOWN"   -> "unknown"]

\* f"deploy-{timestamp}" with timestamp = strftime("%Y%m%d-%H%M%S")
DeploymentId(ts) == <<"deploy", ts>>

\* datetime.utcnow().isoformat() + "Z"
IsoNow(now) == <<"iso", now>>

(* ----------------------- ServiceState / DeploymentState ---------------- *)
\* ServiceState.to_dict: asdict; the str-enum status is written as its value
ServiceState_to_dict(svc) ==
  [svc EXCEPT !.status = ServiceStatusValue[@]]

\* ServiceState.from_dict: ServiceStatus(data['status']); cls(**data)
ServiceState_from_dict(data) ==
  [data EXCEPT !.status = CHOOSE s \in ServiceStatus : ServiceStatusValue[s] = @]

\* DeploymentState.to_dict
to_dict(state) ==
  [state EXCEPT
     !.status = DeploymentStatusValue[@],
     !.services = [n \in DOMAIN @ |-> ServiceState_to_dict(@[n])]]

\* from_dict that loses previous_deployment_id (the field falls back to its default)
from_dict_drops_previous(data) ==
  [data EXCEPT
     !.status = CHOOSE s \in DeploymentStatus : DeploymentStatusValue[s] = @,
     !.services = [n \in DOMAIN @ |-> ServiceState_from_dict(@[n])],
     !.previous_deployment_id = None]

\* DeploymentState.from_dict
from_dict(data) ==
  [data EXCEPT
     !.status = CHOOSE s \in DeploymentStatus : DeploymentStatusValue[s] = @,
     !.services = [n \in DOMAIN @ |-> ServiceState_from_dict(@[n])]]

(* ------------------------------ state store ---------------------------- *)
\* sorted(glob("state-*.json"), reverse=True): names order as their timestamps
RECURSIVE SortedDesc(_)
SortedDesc(S) ==
  IF S = {} THEN <<>>
  ELSE LET m == CHOOSE x \in S : \A y \in S : y <= x
       IN <<m>> \o SortedDesc(S \ {m})

\* _cleanup_old_backups(keep): unlink backups[keep:]
cleanup_old_backups(bk, keep) ==
  LET names == SortedDesc(DOMAIN bk)
      kept  == {names[i] : i \in {j \in 1..Len(names) : j <= keep}}
  IN [t \in kept |-> bk[t]]

\* _backup_current_state: copy2(state_file, backup_dir/state-<timestamp>.json)
backup_current_state(file, bk, now) ==
  IF file = None THEN bk
  ELSE cleanup_old_backups(
         [t \in DOMAIN bk \cup {now} |-> IF t = now THEN Get(file) ELSE bk[t]],
         BackupKeep)

\* save_state that writes the new record first and backs the file up afterwards
save_state_backup_after_write(file, bk, state, create_backup, now) ==
  LET saved == [state EXCEPT !.updated_at = IsoNow(now)]
  IN [file    |-> Some(to_dict(saved)),
      backups |-> IF create_backup /\ file # None
                  THEN backup_current_state(Some(to_dict(saved)), bk, now) ELSE bk,
      current |-> Some(saved)]

\* save_state that keeps the services found in the file which the record to be
\* written does not have
save_state_merges_file(file, bk, state, create_backup, now) ==
  LET on_disk == IF file = None THEN [n \in {} |-> None]
                 ELSE from_dict(Get(file)).services
      merged == [n \in DOMAIN state.services \cup DOMAIN on_disk |->
                   IF n \in DOMAIN state.services THEN state.services[n]
                   ELSE on_disk[n]]
      saved == [state EXCEPT !.updated_at = IsoNow(now), !.services = merged]
  IN [file    |-> Some(to_dict(saved)),
      backups |-> IF create_backup /\ file # None
                  THEN backup_current_state(file, bk, now) ELSE bk,
      current |-> Some(saved)]

\* save_state that stamps updated_at on a copy and keeps the caller's object as
\* self.current_state
save_state_stamps_copy(file, bk, state, create_backup, now) ==
  LET saved == [state EXCEPT !.updated_at = IsoNow(now)]
  IN [file    |-> Some(to_dict(saved)),
      backups |-> IF create_backup /\ file # None
                  THEN backup_current_state(file, bk, now) ELSE bk,
      current |-> Some(state)]

\* save_state(state, create_backup): the store and self.current_state after it
save_state(file, bk, state, create_backup, now) ==
  LET saved == [state EXCEPT !.updated_at = IsoNow(now)]
  IN [file    |-> Some(to_dict(saved)),
      backups |-> IF create_backup /\ file # None
                  THEN backup_current_state(file, bk, now) ELSE bk,
      current |-> Some(saved)]

\* load_state: None (and current_state untouched) when the file does not exist
load_state(file, cur) ==
  IF file = None THEN [ret |-> None, current |-> cur]
  ELSE [ret |-> Some(from_dict(Get(file))), current |-> Some(from_dict(Get(file)))]

\* get_previous_state: newest backup whose deployment_id is previous_deployment_id
get_previous_state(cur, bk) ==
  IF cur = None \/ Get(cur).previous_deployment_id = None THEN None
  ELSE LET names == SortedDesc(DOMAIN bk)
           hits  == {i \in 1..Len(names) :
                       bk[names[i]].deployment_id = Get(Get(cur).previous_deployment_id)}
       IN IF hits = {} THEN None
          ELSE Some(from_dict(bk[names[CHOOSE i \in hits : \A j \in hits : i <= j]]))

(* ------------------------ temporary directories ------------------------ *)
\* the temporary directories that exist, each with the files in it: the staging
\* directories of the snapshot code and the remote directory of the secrets code
NoDirs == [d \in {} |-> {}]

\* Path.mkdir(exist_ok=True), "mkdir -p": an existing directory is kept
mkdir(dirs, d) ==
  [x \in DOMAIN dirs \cup {d} |-> IF x \in DOMAIN dirs THEN dirs[x] ELSE {}]

\* files written into a directory that exists
write_into(dirs, d, files) == [dirs EXCEPT ![d] = @ \cup files]

\* shutil.rmtree(d, ignore_errors=True), "rm -rf d"
rmtree(dirs, d) == [x \in DOMAIN dirs \ {d} |-> dirs[x]]

\* where each rollback_deployment invocation stands when the invocations of two
\* controllers are followed step by step: the statement it is at, the snapshot it
\* found, and whether it has issued a remote command
AllIdle ==
  [m \in Managers |-> [at |-> "idle", matching_snapshot |-> None, issued |-> FALSE]]

(* ------------------------------- Init ---------------------------------- *)
\* the store and the managers as a call finds them
Before ==
  [state_file |-> state_file, backups |-> backups, snapshots |-> snapshots,
   current_state |-> current_state]

NoCall ==
  [op |-> "none", mgr |-> "sm", args |-> <<>>, ret |-> None, err |-> "", msg |-> "",
   calls |-> <<>>,
   before |-> [state_file |-> None, backups |-> [t \in {} |-> None],
               snapshots |-> [d \in {} |-> None],
               current_state |-> [m \in Managers |-> None]]]

Init ==
  /\ clock = 0
  /\ state_file = None
  /\ backups = [t \in {} |-> None]
  /\ current_state = [m \in Managers |-> None]
  /\ snapshots = [d \in {} |-> None]
  /\ staging = NoDirs
  /\ pc = AllIdle
  /\ last = NoCall
  /\ budget = MaxOps

(* --------------------- DeploymentStateManager methods ------------------ *)
Domain == "acme.example"
VmHost == "10.0.0.5"
VmUser == "deploy"

\* create_new_deployment that always announces a rollback target
new_deployment_always_rollback(previous_state, runtime, now) ==
  [deployment_id |-> DeploymentId(now), tenant |-> Tenant, status |-> "INITIALIZING",
   runtime |-> runtime, domain |-> Domain, started_at |-> IsoNow(now),
   updated_at |-> IsoNow(now), vm_host |-> VmHost, vm_user |-> VmUser,
   services |-> [n \in {} |-> None], metadata |-> {},
   previous_deployment_id |->
     IF previous_state # None THEN Some(Get(previous_state).deployment_id) ELSE None,
   rollback_available |-> TRUE]

\* create_new_deployment that links the new record to itself, not to its predecessor
new_deployment_self_linked(previous_state, runtime, now) ==
  [deployment_id |-> DeploymentId(now), tenant |-> Tenant, status |-> "INITIALIZING",
   runtime |-> runtime, domain |-> Domain, started_at |-> IsoNow(now),
   updated_at |-> IsoNow(now), vm_host |-> VmHost, vm_user |-> VmUser,
   services |-> [n \in {} |-> None], metadata |-> {},
   previous_deployment_id |->
     IF previous_state # None THEN Some(DeploymentId(now)) ELSE None,
   rollback_available |-> previous_state # None]

\* create_new_deployment that starts the new record with the services of the
\* previous one
new_deployment_carries_services(previous_state, runtime, now) ==
  [deployment_id |-> DeploymentId(now), tenant |-> Tenant, status |-> "INITIALIZING",
   runtime |-> runtime, domain |-> Domain, started_at |-> IsoNow(now),
   updated_at |-> IsoNow(now), vm_host |-> VmHost, vm_user |-> VmUser,
   services |-> IF previous_state # None THEN Get(previous_state).services
                ELSE [n \in {} |-> None],
   metadata |-> {},
   previous_deployment_id |->
     IF previous_state # None THEN Some(Get(previous_state).deployment_id) ELSE None,
   rollback_available |-> previous_state # None]

\* the DeploymentState built by create_new_deployment (lines 244-264)
new_deployment(previous_state, runtime, now) ==
  [deployment_id |-> DeploymentId(now),
   tenant |-> Tenant,
   status |-> "INITIALIZING",
   runtime |-> runtime,
   domain |-> Domain,
   started_at |-> IsoNow(now),
   updated_at |-> IsoNow(now),
   vm_host |-> VmHost,
   vm_user |-> VmUser,
   services |-> [n \in {} |-> None],
   metadata |-> {},
   previous_deployment_id |->
     IF previous_state # None THEN Some(Get(previous_state).deployment_id) ELSE None,
   rollback_available |-> previous_state # None]

\* update_status: self.current_state.status = status
update_status(state, status) == [state EXCEPT !.status = status]

\* add_service: a fresh ServiceState replaces any entry of that name
add_service(state, service_name, version, ports, now) ==
  LET service_state ==
        [name |-> service_name, status |-> "STARTING", version |-> version,
         image |-> None, ports |-> ports, last_updated |-> Some(IsoNow(now)),
         health_check_failures |-> 0, environment_hash |-> None]
  IN [state EXCEPT !.services =
        [n \in DOMAIN @ \cup {service_name} |->
           IF n = service_name THEN service_state ELSE @[n]]]

\* update_service_status that resets the counter before it counts the failure
update_service_status_resets_first(state, service_name, status, increment_failures, now) ==
  LET s0 == state.services[service_name]
      s1 == [s0 EXCEPT !.status = status, !.last_updated = Some(IsoNow(now))]
      s2 == IF status = "HEALTHY"
            THEN [s1 EXCEPT !.health_check_failures = 0] ELSE s1
      s3 == IF increment_failures
            THEN [s2 EXCEPT !.health_check_failures = @ + 1] ELSE s2
  IN [state EXCEPT !.services[service_name] = s3]

\* update_service_status without the reset of the counter on HEALTHY
update_service_status_no_reset(state, service_name, status, increment_failures, now) ==
  LET s0 == state.services[service_name]
      s1 == [s0 EXCEPT !.status = status, !.last_updated = Some(IsoNow(now))]
      s2 == IF increment_failures
            THEN [s1 EXCEPT !.health_check_failures = @ + 1] ELSE s1
  IN [state EXCEPT !.services[service_name] = s2]

\* update_service_status, for a service present in the record (lines 337-346)
update_service_status(state, service_name, status, increment_failures, now) ==
  LET s0 == state.services[service_name]
      s1 == [s0 EXCEPT !.status = status, !.last_updated = Some(IsoNow(now))]
      s2 == IF increment_failures
            THEN [s1 EXCEPT !.health_check_failures = @ + 1] ELSE s1
      s3 == IF status = "HEALTHY"
            THEN [s2 EXCEPT !.health_check_failures = 0] ELSE s2
  IN [state EXCEPT !.services[service_name] = s3]

\* set_environment_hash, for a service present in the record (line 365)
set_environment_hash(state, service_name, env_hash) ==
  [state EXCEPT !.services[service_name].environment_hash = Some(env_hash)]

\* requires_update that takes a service without a stored hash as up to date
requires_update_unset_is_current(cur, service_name, new_env_hash) ==
  IF cur = None THEN TRUE
  ELSE IF service_name \notin DOMAIN Get(cur).services THEN TRUE
  ELSE IF Get(cur).services[service_name].environment_hash = None THEN FALSE
  ELSE Get(cur).services[service_name].environment_hash # Some(new_env_hash)

\* requires_update
requires_update(cur, service_name, new_env_hash) ==
  IF cur = None THEN TRUE
  ELSE IF service_name \notin DOMAIN Get(cur).services THEN TRUE
  ELSE Get(cur).services[service_name].environment_hash # Some(new_env_hash)

(* ------------------------------ actions -------------------------------- *)
\* the last call made: method, manager instance, arguments, return value, exception,
\* the remote commands it issued, and the store as the call found it
Call(op, m, args, ret, err) ==
  [op |-> op, mgr |-> m, args |-> args, ret |-> ret, err |-> err, msg |-> "",
   calls |-> <<>>, before |-> Before]

\* the store and the manager's current_state after a save_state call
Persist(m, R) ==
  /\ state_file' = R.file
  /\ backups' = R.backups
  /\ current_state' = [current_state EXCEPT ![m] = R.current]

\* a method that only returns when no record is loaded, as it does for a missing
\* service
NoActiveDeployment_returns(op, m, args) ==
  /\ current_state[m] = None
  /\ last' = Call(op, m, args, None, "")
  /\ UNCHANGED <<state_file, backups, current_state>>

\* a manager method that starts with "if self.current_state is None: raise"
NoActiveDeployment(op, m, args) ==
  /\ current_state[m] = None
  /\ last' = Call(op, m, args, None, "ValueError")
  /\ UNCHANGED <<state_file, backups, current_state>>

\* the wall clock moves on by a second
Tick(limit) ==
  /\ clock < limit
  /\ clock' = clock + 1
  /\ UNCHANGED <<state_file, backups, current_state, snapshots, last, budget, staging, pc>>

LoadState(m) ==
  /\ LET L == load_state(state_file, current_state[m])
     IN /\ current_state' = [current_state EXCEPT ![m] = L.current]
        /\ last' = Call("load_state", m, <<>>, L.ret, "")
  /\ budget > 0
  /\ budget' = budget - 1
  /\ UNCHANGED <<clock, state_file, backups, snapshots, staging, pc>>

\* save_state(state, create_backup) called with a record the caller holds
SaveState(m, state, create_backup) ==
  /\ budget > 0
  /\ budget' = budget - 1
  /\ Persist(m, save_state(state_file, backups, state, create_backup, clock))
  /\ last' = Call("save_state", m, <<state, create_backup>>, None, "")
  /\ UNCHANGED <<clock, snapshots, staging, pc>>

\* the caller saves the record it got from the manager
SaveCurrent(m, create_backup) ==
  /\ current_state[m] # None
  /\ SaveState(m, Get(current_state[m]), create_backup)

CreateNewDeployment(m, runtime) ==
  /\ budget > 0
  /\ budget' = budget - 1
  /\ LET L == load_state(state_file, current_state[m])
         state == new_deployment(L.ret, runtime, clock)
         R == save_state(state_file, backups, state, TRUE, clock)
     IN /\ Persist(m, R)
        /\ last' = Call("create_new_deployment", m, <<runtime>>, R.current, "")
  /\ UNCHANGED <<clock, snapshots, staging, pc>>

UpdateStatus(m, status) ==
  /\ budget > 0
  /\ budget' = budget - 1
  /\ \/ NoActiveDeployment("update_status", m, <<status>>)
     \/ /\ current_state[m] # None
        /\ Persist(m, save_state(state_file, backups,
                                 update_status(Get(current_state[m]), status),
                                 TRUE, clock))
        /\ last' = Call("update_status", m, <<status>>, None, "")
  /\ UNCHANGED <<clock, snapshots, staging, pc>>

AddService(m, service_name, version, ports) ==
  /\ budget > 0
  /\ budget' = budget - 1
  /\ \/ NoActiveDeployment("add_service", m, <<service_name>>)
     \/ /\ current_state[m] # None
        /\ Persist(m, save_state(state_file, backups,
                                 add_service(Get(current_state[m]), service_name,
                                             version, ports, clock),
                                 TRUE, clock))
        /\ last' = Call("add_service", m, <<service_name>>, None, "")
  /\ UNCHANGED <<clock, snapshots, staging, pc>>

UpdateServiceStatus(m, service_name, status, increment_failures) ==
  /\ budget > 0
  /\ budget' = budget - 1
  /\ \/ NoActiveDeployment("update_service_status", m, <<service_name, status, increment_failures>>)
     \/ /\ current_state[m] # None
        /\ service_name \notin DOMAIN Get(current_state[m]).services
        /\ last' = Call("update_service_status", m, <<service_name, status, increment_failures>>, None, "")
        /\ UNCHANGED <<state_file, backups, current_state>>
     \/ /\ current_state[m] # None
        /\ service_name \in DOMAIN Get(current_state[m]).services
        /\ increment_failures =>
             Get(current_state[m]).services[service_name].health_check_failures
               < MaxFailures
        /\ Persist(m, save_state(state_file, backups,
                                 update_service_status(Get(current_state[m]),
                                   service_name, status, increment_failures, clock),
                                 TRUE, clock))
        /\ last' = Call("update_service_status", m, <<service_name, status, increment_failures>>, None, "")
  /\ UNCHANGED <<clock, snapshots, staging, pc>>

SetEnvironmentHash(m, service_name, env_hash) ==
  /\ budget > 0
  /\ budget' = budget - 1
  /\ \/ NoActiveDeployment("set_environment_hash", m, <<service_name, env_hash>>)
     \/ /\ current_state[m] # None
        /\ service_name \notin DOMAIN Get(current_state[m]).services
        /\ last' = Call("set_environment_hash", m, <<service_name, env_hash>>, None, "")
        /\ UNCHANGED <<state_file, backups, current_state>>
     \/ /\ current_state[m] # None
        /\ service_name \in DOMAIN Get(current_state[m]).services
        /\ Persist(m, save_state(state_file, backups,
                                 set_environment_hash(Get(current_state[m]),
                                   service_name, env_hash),
                                 TRUE, clock))
        /\ last' = Call("set_environment_hash", m, <<service_name, env_hash>>, None, "")
  /\ UNCHANGED <<clock, snapshots, staging, pc>>

RequiresUpdate(m, service_name, new_env_hash) ==
  /\ last' = Call("requires_update", m, <<service_name, new_env_hash>>,
                  Some(requires_update(current_state[m], service_name, new_env_hash)), "")
  /\ UNCHANGED <<clock, state_file, backups, current_state, snapshots, budget, staging, pc>>

GetPreviousState(m) ==
  /\ last' = Call("get_previous_state", m, <<>>,
                  get_previous_state(current_state[m], backups), "")
  /\ UNCHANGED <<clock, state_file, backups, current_state, snapshots, budget, staging, pc>>

MarkRollbackStarted(m) ==
  /\ budget > 0
  /\ budget' = budget - 1
  /\ \/ /\ current_state[m] = None
        /\ UNCHANGED <<state_file, backups, current_state>>
     \/ /\ current_state[m] # None
        /\ Persist(m, save_state(state_file, backups,
                                 update_status(Get(current_state[m]), "ROLLING_BACK"),
                                 TRUE, clock))
  /\ last' = Call("mark_rollback_started", m, <<>>, None, "")
  /\ UNCHANGED <<clock, snapshots, staging, pc>>

MarkRollbackComplete(m) ==
  /\ budget > 0
  /\ budget' = budget - 1
  /\ \/ /\ current_state[m] = None
        /\ UNCHANGED <<state_file, backups, current_state>>
     \/ /\ current_state[m] # None
        /\ Persist(m, save_state(state_file, backups,
                                 update_status(Get(current_state[m]), "ROLLED_BACK"),
                                 TRUE, clock))
  /\ last' = Call("mark_rollback_complete", m, <<>>, None, "")
  /\ UNCHANGED <<clock, snapshots, staging, pc>>

(* --------------------------- DeploymentSnapshot ------------------------ *)
\* local names of the files _download_configurations can capture
RemoteFiles ==
  {"paas-deployment_docker-compose.yml", "paas-deployment_.env",
   "paas-deployment_configs_", "_opt_deployment-state.yml"}

\* the archive create_snapshot writes as snapshot-<deployment_id>.tar.gz; mtime
\* is the file's modification time
snapshot_archive(deployment_id, captured, description, now, mtime) ==
  [metadata |-> [deployment_id |-> deployment_id, tenant |-> Tenant,
                 timestamp |-> IsoNow(now), vm_host |-> VmHost, vm_user |-> VmUser,
                 description |-> description],
   files |-> captured,
   mtime |-> mtime]

\* st_mtime of a file written now: later than that of every file written before
\* (archives are written one after the other, seconds of remote commands apart)
NextMtime(snaps) ==
  LET ms == {snaps[d].mtime : d \in DOMAIN snaps}
  IN IF ms = {} THEN 1 ELSE 1 + CHOOSE m \in ms : \A k \in ms : k <= m

\* _cleanup_old_snapshots(keep): order is the listing sorted by st_mtime, newest
\* first (files of equal mtime in directory order); snapshots[keep:] are unlinked
cleanup_old_snapshots(snaps, order, keep) ==
  [d \in {order[i] : i \in {j \in 1..Len(order) : j <= keep}} |-> snaps[d]]

\* the orders sorted(..., key=st_mtime, reverse=True) can return
RECURSIVE MtimeOrdersOf(_, _)
MtimeOrdersOf(snaps, S) ==
  IF S = {} THEN {<<>>}
  ELSE UNION {{<<d>> \o o : o \in MtimeOrdersOf(snaps, S \ {d})} :
                d \in {x \in S : \A y \in S : snaps[x].mtime >= snaps[y].mtime}}

MtimeOrders(snaps) == MtimeOrdersOf(snaps, DOMAIN snaps)

\* list_snapshots: archives by file name, newest name first, with their metadata
list_snapshots(snaps) ==
  LET ts == SortedDesc({d[2] : d \in DOMAIN snaps})
  IN [i \in 1..Len(ts) |->
        [deployment_id |-> snaps[DeploymentId(ts[i])].metadata.deployment_id,
         snapshot_file |-> DeploymentId(ts[i])]]

\* where create_snapshot can raise: the "test -e" ssh call of the download, the
\* metadata file, the tar archive (nothing written yet), the listing for the
\* pruning (the archive is written by then)
CreateFailures == {"none", "download", "metadata", "archive", "pruning"}

\* create_snapshot: download, metadata, archive (tarfile 'w:gz' replaces a file of
\* that name), prune to SnapshotKeep; every exception becomes RollbackError.
\* order is the mtime order (of MtimeOrders) the pruning sorts the archives into
create_snapshot(snaps, deployment_id, captured, description, fail, order, now) ==
  LET written == [d \in DOMAIN snaps \cup {deployment_id} |->
                    IF d = deployment_id
                    THEN snapshot_archive(deployment_id, captured, description, now,
                                          NextMtime(snaps))
                    ELSE snaps[d]]
  IN IF fail \in {"download", "metadata", "archive"}
     THEN [snaps |-> snaps, ret |-> None, err |-> "RollbackError"]
     ELSE IF fail = "pruning"
     THEN [snaps |-> written, ret |-> None, err |-> "RollbackError"]
     ELSE [snaps |-> cleanup_old_snapshots(written, order, SnapshotKeep),
           ret |-> Some(deployment_id), err |-> ""]

\* temp_dir of create_snapshot: <snapshot_dir>/snapshot-<deployment_id>-temp
snapshot_temp_dir(deployment_id) == <<"snapshot-temp", deployment_id>>

\* a create_snapshot whose temporary directory is removed only on the way to the
\* return statement
create_snapshot_staging_cleans_on_success(dirs, deployment_id, captured, fail) ==
  LET temp_dir == snapshot_temp_dir(deployment_id)
      made == mkdir(dirs, temp_dir)
      filled == IF fail = "download" THEN made
                ELSE IF fail = "metadata" THEN write_into(made, temp_dir, captured)
                ELSE write_into(made, temp_dir,
                                captured \cup {"snapshot-metadata.json"})
  IN IF fail = "none" THEN rmtree(filled, temp_dir) ELSE filled

\* the temporary directories after create_snapshot: temp_dir is made first, filled
\* as far as the call gets, and removed by the finally clause on every way out
create_snapshot_staging(dirs, deployment_id, captured, fail) ==
  LET temp_dir == snapshot_temp_dir(deployment_id)
      made == mkdir(dirs, temp_dir)
      filled == IF fail = "download" THEN made
                ELSE IF fail = "metadata" THEN write_into(made, temp_dir, captured)
                ELSE write_into(made, temp_dir,
                                captured \cup {"snapshot-metadata.json"})
  IN rmtree(filled, temp_dir)

\* the archives a create_snapshot call has to sort for the pruning
WrittenBy(deployment_id) ==
  [d \in DOMAIN snapshots \cup {deployment_id} |->
     IF d = deployment_id
     THEN snapshot_archive(deployment_id, {}, <<>>, clock, NextMtime(snapshots))
     ELSE snapshots[d]]

\* create_snapshot(deployment_id, vm_host, vm_user) with the default description;
\* captured are the remote files that exist and could be downloaded
CreateSnapshot(deployment_id, captured, fail) ==
  /\ budget > 0
  /\ budget' = budget - 1
  /\ \E o \in MtimeOrders(WrittenBy(deployment_id)) :
       LET R == create_snapshot(snapshots, deployment_id, captured,
                                <<"Snapshot for deployment", deployment_id>>,
                                fail, o, clock)
       IN /\ snapshots' = R.snaps
          /\ last' = Call("create_snapshot", "rb", <<deployment_id>>, R.ret, R.err)
  /\ staging' = create_snapshot_staging(staging, deployment_id, captured, fail)
  /\ UNCHANGED <<clock, state_file, backups, current_state, pc>>

\* create_pre_deployment_snapshot that lets the RollbackError through
create_pre_deployment_snapshot_propagates(snaps, deployment_id, captured, fail, order, now) ==
  create_snapshot(snaps, deployment_id, captured,
                  <<"Pre-deployment snapshot for", deployment_id>>, fail, order, now)

\* create_pre_deployment_snapshot: create_snapshot with its own description; an
\* exception is logged and None returned
create_pre_deployment_snapshot(snaps, deployment_id, captured, fail, order, now) ==
  LET R == create_snapshot(snaps, deployment_id, captured,
                           <<"Pre-deployment snapshot for", deployment_id>>,
                           fail, order, now)
  IN [snaps |-> R.snaps, ret |-> IF R.err = "" THEN R.ret ELSE None, err |-> ""]

CreatePreDeploymentSnapshot(deployment_id, captured, fail) ==
  /\ budget > 0
  /\ budget' = budget - 1
  /\ \E o \in MtimeOrders(WrittenBy(deployment_id)) :
       LET R == create_pre_deployment_snapshot(snapshots, deployment_id, captured,
                                               fail, o, clock)
       IN /\ snapshots' = R.snaps
          /\ last' = Call("create_pre_deployment_snapshot", "rb",
                          <<deployment_id, fail>>, R.ret, R.err)
  /\ staging' = create_snapshot_staging(staging, deployment_id, captured, fail)
  /\ UNCHANGED <<clock, state_file, backups, current_state, pc>>

\* list_snapshots()
ListSnapshots ==
  /\ last' = Call("list_snapshots", "rb", <<>>, Some(list_snapshots(snapshots)), "")
  /\ UNCHANGED <<clock, state_file, backups, current_state, snapshots, budget, staging, pc>>

(* --------------------------- DeploymentRollback ------------------------ *)
\* can_rollback without the "Already rolled back" check
can_rollback_ignores_rolled_back(loaded) ==
  IF loaded = None THEN [ok |-> FALSE, reason |-> Some("No deployment state found")]
  ELSE IF ~Get(loaded).rollback_available
       THEN [ok |-> FALSE, reason |-> Some("No previous deployment available")]
  ELSE IF Get(loaded).status = "ROLLING_BACK"
       THEN [ok |-> FALSE, reason |-> Some("Rollback already in progress")]
  ELSE [ok |-> TRUE, reason |-> None]

\* can_rollback, on the record load_state returned
can_rollback(loaded) ==
  IF loaded = None THEN [ok |-> FALSE, reason |-> Some("No deployment state found")]
  ELSE IF ~Get(loaded).rollback_available
       THEN [ok |-> FALSE, reason |-> Some("No previous deployment available")]
  ELSE IF Get(loaded).status = "ROLLING_BACK"
       THEN [ok |-> FALSE, reason |-> Some("Rollback already in progress")]
  ELSE IF Get(loaded).status = "ROLLED_BACK"
       THEN [ok |-> FALSE, reason |-> Some("Already rolled back")]
  ELSE [ok |-> TRUE, reason |-> None]

CanRollback ==
  /\ LET L == load_state(state_file, current_state["rb"])
     IN /\ current_state' = [current_state EXCEPT !["rb"] = L.current]
        /\ last' = Call("can_rollback", "rb", <<>>, Some(can_rollback(L.ret)), "")
  /\ budget > 0
  /\ budget' = budget - 1
  /\ UNCHANGED <<clock, state_file, backups, snapshots, staging, pc>>

\* one remote command or collaborator call issued by rollback_deployment, with
\* what it answered: exit status (1 for a raised error) and the kind of output
Cmd(c, rc) == [cmd |-> c, arg |-> None, rc |-> rc, out |-> ""]
CmdOn(c, a, rc) == [cmd |-> c, arg |-> Some(a), rc |-> rc, out |-> ""]
CmdOut(c, rc, out) == [cmd |-> c, arg |-> None, rc |-> rc, out |-> out]

\* what _verify_rollback_health can read back from "docker compose ps --format json"
ProbeResults ==
  {"command_failed", "not_json", "no_containers", "some_running", "all_running",
   "single_object"}

\* _verify_rollback_health raises only when json.loads returns one object, not a
\* list: iterating it yields its keys and str has no .get (AttributeError)
verify_rollback_health_raises(probe) == probe = "single_object"

\* file_mapping of _upload_configurations, in the order it is walked
FileMapping ==
  <<"paas-deployment_docker-compose.yml", "paas-deployment_.env",
    "paas-deployment_configs_", "_opt_deployment-state.yml">>

\* _upload_configurations: every mapped file found in the extracted directory is
\* uploaded; an scp_upload that raises (the files in failing) is logged, and the
\* loop goes on; nothing is raised or returned
upload_configurations(files, failing) ==
  LET Attempt(f) == CmdOn("scp_upload", f, IF f \in failing THEN 1 ELSE 0)
      present == SelectSeq(FileMapping, LAMBDA f : f \in files)
  IN [i \in 1..Len(present) |-> Attempt(present[i])]

\* restore_snapshot: extract, then upload the captured files; raises RollbackError
\* when the archive is missing or cannot be extracted, returns True otherwise
restore_snapshot(snaps, snapshot_file, extract_ok, failing) ==
  IF snapshot_file \notin DOMAIN snaps \/ ~extract_ok
  THEN [raised |-> TRUE, ret |-> None, uploads |-> <<>>]
  ELSE [raised |-> FALSE, ret |-> Some(TRUE),
        uploads |-> upload_configurations(snaps[snapshot_file].files, failing)]

\* temp_dir of restore_snapshot: <snapshot_dir>/restore-<time to the second>
restore_temp_dir(now) == <<"restore", now>>

\* the temporary directories after restore_snapshot: temp_dir is made first, the
\* archive extracted into it, and the finally clause removes it on every way out
restore_snapshot_staging(dirs, snaps, snapshot_file, extract_ok, now) ==
  LET temp_dir == restore_temp_dir(now)
      made == mkdir(dirs, temp_dir)
      extracted == IF snapshot_file \notin DOMAIN snaps \/ ~extract_ok THEN made
                   ELSE write_into(made, temp_dir,
                                   snaps[snapshot_file].files
                                     \cup {"snapshot-metadata.json"})
  IN rmtree(extracted, temp_dir)

\* the scp_upload calls that can raise during one restore
UploadFailures == {{}, {"paas-deployment_.env"}}

\* restore_snapshot(snapshot_file, vm_host, vm_user) as one call
RestoreSnapshot(snapshot_file, extract_ok, failing) ==
  /\ budget > 0
  /\ budget' = budget - 1
  /\ LET R == restore_snapshot(snapshots, snapshot_file, extract_ok, failing)
     IN last' = [Call("restore_snapshot", "rb", <<snapshot_file>>, R.ret,
                      IF R.raised THEN "RollbackError" ELSE "")
                 EXCEPT !.calls = R.uploads]
  /\ staging' = restore_snapshot_staging(staging, snapshots, snapshot_file,
                                         extract_ok, clock)
  /\ UNCHANGED <<clock, state_file, backups, current_state, snapshots, pc>>

\* _stop_services that issues the forced stop whatever the graceful stop returned
stop_services_always_kills(stop_rc, kill_rc) ==
  <<Cmd("docker compose down", stop_rc), Cmd("docker compose kill", kill_rc)>>

\* _stop_services: graceful stop, forced stop when it returns non-zero; both are
\* run with check=False and neither exit status is looked at again
stop_services(stop_rc, kill_rc) ==
  IF stop_rc # 0
  THEN <<Cmd("docker compose down", stop_rc), Cmd("docker compose kill", kill_rc)>>
  ELSE <<Cmd("docker compose down", 0)>>

\* a failure handler that still marks the rollback complete
RollbackFailed_marks_complete(S, msg, calls) ==
  [file |-> Some([Get(S.file) EXCEPT !.status = "rolled_back"]),
   backups |-> S.backups,
   current |-> Some([Get(S.current) EXCEPT !.status = "ROLLED_BACK"]),
   ret |-> None, err |-> "RollbackError", msg |-> msg, calls |-> calls]

\* the except clause of rollback_deployment: the error is wrapped, the state left
RollbackFailed(S, msg, calls) ==
  [file |-> S.file, backups |-> S.backups, current |-> S.current,
   ret |-> None, err |-> "RollbackError", msg |-> msg, calls |-> calls]

\* rollback steps that stop the services before the previous record and its
\* snapshot are looked up
rollback_steps_stops_first(file, bk, loaded, snaps, env, now, later) ==
  LET started == save_state(file, bk, update_status(Get(loaded), "ROLLING_BACK"),
                            TRUE, now)
      previous_state == get_previous_state(started.current, started.backups)
      listing == list_snapshots(snaps)
      hits == IF previous_state = None THEN {}
              ELSE {i \in 1..Len(listing) :
                      listing[i].deployment_id = Get(previous_state).deployment_id}
      matching_snapshot == listing[CHOOSE i \in hits : \A j \in hits : i <= j].snapshot_file
      stop == stop_services(env.stop_rc, env.kill_rc)
      restore == restore_snapshot(snaps, matching_snapshot, env.extract_ok,
                                  env.upload_fails)
      c1 == stop \o <<CmdOn("restore_snapshot", matching_snapshot,
                            IF restore.raised THEN 1 ELSE 0)>>
                 \o restore.uploads
      c2 == c1 \o <<Cmd("docker compose up -d", env.restart_rc)>>
      c3 == IF env.verify_health
            THEN c2 \o <<CmdOut("docker compose ps",
                                IF env.probe = "command_failed" THEN 1 ELSE 0,
                                env.probe)>>
            ELSE c2
      complete == save_state(started.file, started.backups,
                             update_status(Get(started.current), "ROLLED_BACK"),
                             TRUE, later)
  IN IF previous_state = None
       THEN RollbackFailed(started, "Previous deployment state not found", stop)
     ELSE IF hits = {}
       THEN RollbackFailed(started, "Snapshot not found for deployment", stop)
     ELSE IF restore.raised
       THEN RollbackFailed(started, "Failed to restore snapshot", c1)
     ELSE IF env.restart_rc # 0
       THEN RollbackFailed(started, "Failed to restart services", c2)
     ELSE IF env.verify_health /\ verify_rollback_health_raises(env.probe)
       THEN RollbackFailed(started, "'str' object has no attribute 'get'", c3)
     ELSE [file |-> complete.file, backups |-> complete.backups,
           current |-> complete.current,
           ret |-> Some(TRUE), err |-> "", msg |-> "", calls |-> c3]

\* rollback steps that end by making the previous record the current one
rollback_steps_restores_record(file, bk, loaded, snaps, env, now, later) ==
  LET started == save_state(file, bk, update_status(Get(loaded), "ROLLING_BACK"),
                            TRUE, now)
      previous_state == get_previous_state(started.current, started.backups)
      listing == list_snapshots(snaps)
      hits == IF previous_state = None THEN {}
              ELSE {i \in 1..Len(listing) :
                      listing[i].deployment_id = Get(previous_state).deployment_id}
      matching_snapshot == listing[CHOOSE i \in hits : \A j \in hits : i <= j].snapshot_file
      stop == stop_services(env.stop_rc, env.kill_rc)
      restore == restore_snapshot(snaps, matching_snapshot, env.extract_ok,
                                  env.upload_fails)
      c1 == stop \o <<CmdOn("restore_snapshot", matching_snapshot,
                            IF restore.raised THEN 1 ELSE 0)>>
                 \o restore.uploads
      c2 == c1 \o <<Cmd("docker compose up -d", env.restart_rc)>>
      c3 == IF env.verify_health
            THEN c2 \o <<CmdOut("docker compose ps",
                                IF env.probe = "command_failed" THEN 1 ELSE 0,
                                env.probe)>>
            ELSE c2
      complete == save_state(started.file, started.backups,
                             update_status(Get(previous_state), "ROLLED_BACK"),
                             TRUE, later)
  IN IF previous_state = None
       THEN RollbackFailed(started, "Previous deployment state not found", <<>>)
     ELSE IF hits = {}
       THEN RollbackFailed(started, "Snapshot not found for deployment", <<>>)
     ELSE IF restore.raised
       THEN RollbackFailed(started, "Failed to restore snapshot", c1)
     ELSE IF env.restart_rc # 0
       THEN RollbackFailed(started, "Failed to restart services", c2)
     ELSE IF env.verify_health /\ verify_rollback_health_raises(env.probe)
       THEN RollbackFailed(started, "'str' object has no attribute 'get'", c3)
     ELSE [file |-> complete.file, backups |-> complete.backups,
           current |-> complete.current,
           ret |-> Some(TRUE), err |-> "", msg |-> "", calls |-> c3]

\* rollback_deployment after can_rollback said yes: lines 381-427.
\* loaded is the record can_rollback loaded, env the collaborators' answers,
\* now / later the clock at mark_rollback_started / mark_rollback_complete
rollback_steps(file, bk, loaded, snaps, env, now, later) ==
  LET started == save_state(file, bk, update_status(Get(loaded), "ROLLING_BACK"),
                            TRUE, now)
      previous_state == get_previous_state(started.current, started.backups)
      listing == list_snapshots(snaps)
      hits == IF previous_state = None THEN {}
              ELSE {i \in 1..Len(listing) :
                      listing[i].deployment_id = Get(previous_state).deployment_id}
      matching_snapshot == listing[CHOOSE i \in hits : \A j \in hits : i <= j].snapshot_file
      stop == stop_services(env.stop_rc, env.kill_rc)
      restore == restore_snapshot(snaps, matching_snapshot, env.extract_ok,
                                  env.upload_fails)
      c1 == stop \o <<CmdOn("restore_snapshot", matching_snapshot,
                            IF restore.raised THEN 1 ELSE 0)>>
                 \o restore.uploads
      c2 == c1 \o <<Cmd("docker compose up -d", env.restart_rc)>>
      c3 == IF env.verify_health
            THEN c2 \o <<CmdOut("docker compose ps",
                                IF env.probe = "command_failed" THEN 1 ELSE 0,
                                env.probe)>>
            ELSE c2
      complete == save_state(started.file, started.backups,
                             update_status(Get(started.current), "ROLLED_BACK"),
                             TRUE, later)
  IN IF previous_state = None
       THEN RollbackFailed(started, "Previous deployment state not found", <<>>)
     ELSE IF hits = {}
       THEN RollbackFailed(started, "Snapshot not found for deployment", <<>>)
     ELSE IF restore.raised
       THEN RollbackFailed(started, "Failed to restore snapshot", c1)
     ELSE IF env.restart_rc # 0
       THEN RollbackFailed(started, "Failed to restart services", c2)
     ELSE IF env.verify_health /\ verify_rollback_health_raises(env.probe)
       THEN RollbackFailed(started, "'str' object has no attribute 'get'", c3)
     ELSE [file |-> complete.file, backups |-> complete.backups,
           current |-> complete.current,
           ret |-> Some(TRUE), err |-> "", msg |-> "", calls |-> c3]

\* rollback_deployment that marks the rollback started before it checks eligibility
rollback_deployment_marks_first(file, bk, cur, snaps, env, now, later) ==
  LET L == load_state(file, cur)
      can == can_rollback(L.ret)
      started == save_state(file, bk, update_status(Get(L.ret), "ROLLING_BACK"),
                            TRUE, now)
  IN IF ~can.ok
     THEN IF L.ret = None
          THEN [file |-> file, backups |-> bk, current |-> L.current,
                ret |-> None, err |-> "RollbackError", msg |-> Get(can.reason),
                calls |-> <<>>]
          ELSE [file |-> started.file, backups |-> started.backups,
                current |-> started.current,
                ret |-> None, err |-> "RollbackError", msg |-> Get(can.reason),
                calls |-> <<>>]
     ELSE rollback_steps(file, bk, L.ret, snaps, env, now, later)

\* rollback_deployment: eligibility check first (lines 376-379)
rollback_deployment(file, bk, cur, snaps, env, now, later) ==
  LET L == load_state(file, cur)
      can == can_rollback(L.ret)
  IN IF ~can.ok
     THEN [file |-> file, backups |-> bk, current |-> L.current,
           ret |-> None, err |-> "RollbackError", msg |-> Get(can.reason),
           calls |-> <<>>]
     ELSE rollback_steps(file, bk, L.ret, snaps, env, now, later)

\* the temporary directories after rollback_deployment: those restore_snapshot
\* leaves, when the call got as far as the restore
rollback_staging(dirs, snaps, calls, env, now) ==
  LET at == {i \in DOMAIN calls : calls[i].cmd = "restore_snapshot"}
  IN IF at = {} THEN dirs
     ELSE restore_snapshot_staging(dirs, snaps, Get(calls[CHOOSE i \in at : TRUE].arg),
                                   env.extract_ok, now)

RollbackEnvs ==
  [verify_health : BOOLEAN, stop_rc : {0, 1}, kill_rc : {0, 1}, extract_ok : BOOLEAN,
   upload_fails : UploadFailures, restart_rc : {0, 1}, probe : ProbeResults]

\* rollback_deployment as one call. dt is the time it takes: the probe sleeps ten
\* seconds before it asks, a call that issues no command returns at once
RollbackDeployment(env, dt) ==
  /\ budget > 0
  /\ budget' = budget - 1
  /\ clock + dt <= MaxClock
  /\ ~env.verify_health => env.probe = "command_failed"
  /\ env.stop_rc = 0 => env.kill_rc = 0
  /\ ~env.extract_ok => env.upload_fails = {}
  /\ LET R == rollback_deployment(state_file, backups, current_state["rb"],
                                  snapshots, env, clock, clock + dt)
         probed == \E i \in DOMAIN R.calls : R.calls[i].cmd = "docker compose ps"
     IN /\ probed => dt >= 1
        /\ R.calls = <<>> => dt = 0
        /\ state_file' = R.file
        /\ backups' = R.backups
        /\ current_state' = [current_state EXCEPT !["rb"] = R.current]
        /\ last' = [op |-> "rollback_deployment", mgr |-> "rb",
                    args |-> <<env.verify_health>>,
                    ret |-> R.ret, err |-> R.err, msg |-> R.msg, calls |-> R.calls,
                    before |-> Before]
        /\ clock' = clock + dt
        /\ staging' = rollback_staging(staging, snapshots, R.calls, env, clock)
  /\ UNCHANGED <<snapshots, pc>>

(* ----------------------------- SecretsManager -------------------------- *)
\* remote_temp of transfer_to_vm: <remote_dir>/paas-secrets-<tenant> on the VM
remote_temp_dir == <<"paas-secrets", Tenant>>

\* the files of the remote temporary directory: the encrypted bundle, the key
\* file, the decrypted archive and the directory extracted from it
RemoteBundle == "credentials.tar.gz.enc"
RemoteKey == "decryption.key"
DecryptedArchive == "credentials.tar.gz"
ExtractedDir == "credentials-/"

\* where transfer_to_vm can raise: the remote mkdir, the upload of the bundle, the
\* command that writes the key file, the chmod of the directory
TransferFailures == {"none", "mkdir", "upload", "key", "chmod"}

\* transfer_to_vm: every exception becomes SecretsError; what was created on the
\* VM by then stays
transfer_to_vm(dirs, fail) ==
  LET made == mkdir(dirs, remote_temp_dir)
      uploaded == write_into(made, remote_temp_dir, {RemoteBundle})
      keyed == write_into(uploaded, remote_temp_dir, {RemoteKey})
  IN IF fail = "mkdir" THEN [dirs |-> dirs, ret |-> None, err |-> "SecretsError"]
     ELSE IF fail = "upload" THEN [dirs |-> made, ret |-> None, err |-> "SecretsError"]
     ELSE IF fail = "key" THEN [dirs |-> uploaded, ret |-> None, err |-> "SecretsError"]
     ELSE IF fail = "chmod" THEN [dirs |-> keyed, ret |-> None, err |-> "SecretsError"]
     ELSE [dirs |-> keyed, ret |-> Some(<<RemoteBundle, RemoteKey>>), err |-> ""]

\* _cleanup_remote_secrets: one ssh command (check=False) that shreds the files
\* and removes the directory; a failure is not reported
cleanup_remote_secrets(dirs, remote_dir, cleanup_rc) ==
  IF cleanup_rc = 0 THEN rmtree(dirs, remote_dir) ELSE dirs

\* where decrypt_and_inject_on_vm can raise: the remote openssl, the tar
\* extraction, the listing of the extracted directory, the mkdir of the target,
\* the copy, the chmod of the copied files
InjectFailures == {"none", "decrypt", "extract", "find", "mkdir", "copy", "chmod"}

\* decrypt_and_inject_on_vm: the steps up to the one that fails; the cleanup is
\* the last statement before "return True", every exception becomes SecretsError
decrypt_and_inject_on_vm(dirs, fail, cleanup_rc) ==
  LET decrypted == write_into(dirs, remote_temp_dir, {DecryptedArchive})
      extracted == write_into(decrypted, remote_temp_dir, {ExtractedDir})
      Raised(d, n) ==
        [dirs |-> d, ret |-> None, err |-> "SecretsError",
         calls |-> [i \in 1..n |->
                      Cmd(<<"openssl enc -d", "tar -xzf", "ls -d", "mkdir -p", "cp -r",
                            "chmod 600">>[i],
                          IF i = n THEN 1 ELSE 0)]]
  IN CASE fail = "decrypt" -> Raised(dirs, 1)
       [] fail = "extract" -> Raised(decrypted, 2)
       [] fail = "find"    -> Raised(extracted, 3)
       [] fail = "mkdir"   -> Raised(extracted, 4)
       [] fail = "copy"    -> Raised(extracted, 5)
       [] fail = "chmod"   -> Raised(extracted, 6)
       [] OTHER ->
            [dirs |-> cleanup_remote_secrets(extracted, remote_temp_dir, cleanup_rc),
             ret |-> Some(TRUE), err |-> "",
             calls |-> [i \in 1..7 |->
                          Cmd(<<"openssl enc -d", "tar -xzf", "ls -d", "mkdir -p",
                                "cp -r", "chmod 600", "rm -rf">>[i],
                              IF i = 7 THEN cleanup_rc ELSE 0)]]

\* transfer_to_vm(encrypted_bundle, encryption_key, vm_host, vm_user)
TransferToVm(fail) ==
  /\ budget > 0
  /\ budget' = budget - 1
  /\ LET R == transfer_to_vm(staging, fail)
     IN /\ staging' = R.dirs
        /\ last' = Call("transfer_to_vm", "sm", <<fail>>, R.ret, R.err)
  /\ UNCHANGED <<clock, state_file, backups, current_state, snapshots, pc>>

\* decrypt_and_inject_on_vm(vm_host, vm_user, remote_bundle, remote_key): the
\* remote openssl cannot succeed without the bundle and the key
DecryptAndInjectOnVm(fail, cleanup_rc) ==
  /\ budget > 0
  /\ budget' = budget - 1
  /\ fail # "none" => cleanup_rc = 0
  /\ (\/ remote_temp_dir \notin DOMAIN staging
      \/ ~({RemoteBundle, RemoteKey} \subseteq staging[remote_temp_dir]))
       => fail = "decrypt"
  /\ LET R == decrypt_and_inject_on_vm(staging, fail, cleanup_rc)
     IN /\ staging' = R.dirs
        /\ last' = [Call("decrypt_and_inject_on_vm", "sm", <<fail>>, R.ret, R.err)
                    EXCEPT !.calls = R.calls]
  /\ UNCHANGED <<clock, state_file, backups, current_state, snapshots, pc>>

\* deploy_secrets_to_vm: transfer, then decrypt and inject; a SecretsError of
\* either is logged and False returned, with nothing removed
deploy_secrets_to_vm(dirs, transfer_fail, inject_fail, cleanup_rc) ==
  LET T == transfer_to_vm(dirs, transfer_fail)
      D == decrypt_and_inject_on_vm(T.dirs, inject_fail, cleanup_rc)
  IN IF T.err # "" THEN [dirs |-> T.dirs, ret |-> Some(FALSE), err |-> "", calls |-> <<>>]
     ELSE IF D.err # ""
     THEN [dirs |-> D.dirs, ret |-> Some(FALSE), err |-> "", calls |-> D.calls]
     ELSE [dirs |-> D.dirs, ret |-> D.ret, err |-> "", calls |-> D.calls]

\* deploy_secrets_to_vm(tenant, credentials_dir, vm_host, vm_user)
DeploySecretsToVm(transfer_fail, inject_fail, cleanup_rc) ==
  /\ budget > 0
  /\ budget' = budget - 1
  /\ transfer_fail # "none" => inject_fail = "none"
  /\ inject_fail # "none" \/ transfer_fail # "none" => cleanup_rc = 0
  /\ LET R == deploy_secrets_to_vm(staging, transfer_fail, inject_fail, cleanup_rc)
     IN /\ staging' = R.dirs
        /\ last' = [Call("deploy_secrets_to_vm", "sm", <<transfer_fail, inject_fail>>,
                         R.ret, R.err)
                    EXCEPT !.calls = R.calls]
  /\ UNCHANGED <<clock, state_file, backups, current_state, snapshots, pc>>

(* ------------------------- the orchestrator's calls -------------------- *)
\* inputs of the calls: one value of every kind the code tells apart
StatusInputs == {"RUNNING", "FAILED"}
ServiceStatusInputs == {"HEALTHY", "UNHEALTHY"}

Next ==
  \/ Tick(MaxClock)
  \/ LoadState("sm")
  \/ CreateNewDeployment("sm", "docker")
  \/ \E s \in StatusInputs : UpdateStatus("sm", s)
  \/ MarkRollbackStarted("sm")
  \/ MarkRollbackComplete("sm")
  \/ AddService("sm", "web", Some("1.2"), <<80>>)
  \/ \E s \in ServiceStatusInputs, inc \in BOOLEAN :
       UpdateServiceStatus("sm", "web", s, inc)
  \/ SetEnvironmentHash("sm", "web", "h1")
  \/ \E cb \in BOOLEAN : SaveCurrent("sm", cb)
  \/ \E t \in 0..clock, fail \in {"none", "archive"} :
       CreateSnapshot(DeploymentId(t), RemoteFiles, fail)
  \/ CanRollback
  \/ \E env \in RollbackEnvs, dt \in {0, 1} : RollbackDeployment(env, dt)

Spec == Init /\ [][Next]_vars

(* ---------------- the backup history under many saves ------------------ *)
\* every call of this specification is one save_state(create_backup=True)
InitRet ==
  /\ clock = 0
  /\ state_file = None
  /\ backups = [t \in {} |-> None]
  /\ current_state = [m \in Managers |-> None]
  /\ snapshots = [d \in {} |-> None]
  /\ staging = NoDirs
  /\ pc = AllIdle
  /\ last = NoCall
  /\ budget = MaxSavesRet

SavesRet == MaxSavesRet - budget

NextRet ==
  \/ Tick(MaxClockRet)
  \/ CreateNewDeployment("sm", "docker")
  \/ SaveCurrent("sm", TRUE)
  \/ GetPreviousState("sm")

SpecRet == InitRet /\ [][NextRet]_vars

(* --------------------- round trip through the state file --------------- *)
\* DeploymentState values: every status, with or without a service, a previous
\* deployment and a rollback flag
RTServiceStates ==
  [name : Names, status : ServiceStatus, version : {Some("1.2")}, image : {None},
   ports : {<<80>>}, last_updated : {None, Some(IsoNow(0))},
   health_check_failures : 0..MaxFailures, environment_hash : {None, Some("h1")}]

RTServices ==
  {[n \in {} |-> None]} \cup
  {[n \in {svc.name} |-> svc] : svc \in RTServiceStates}

RTStates ==
  [deployment_id : {DeploymentId(0)}, tenant : {Tenant}, status : DeploymentStatus,
   runtime : {"docker"}, domain : {Domain}, started_at : {IsoNow(0)},
   updated_at : {IsoNow(0)}, vm_host : {VmHost}, vm_user : {VmUser},
   services : RTServices, metadata : {{}},
   previous_deployment_id : {None, Some(DeploymentId(0))},
   rollback_available : BOOLEAN]

InitRT ==
  /\ clock = 0
  /\ state_file = None
  /\ backups = [t \in {} |-> None]
  /\ current_state = [m \in Managers |-> None]
  /\ snapshots = [d \in {} |-> None]
  /\ staging = NoDirs
  /\ pc = AllIdle
  /\ \E state \in RTStates : last = Call("state", "sm", <<state, TRUE>>, None, "")
  /\ budget = MaxCallsRT

\* save_state on the record the caller holds
SaveHeld(m, create_backup) ==
  /\ last.op \in {"state", "save_state"}
  /\ SaveState(m, last.args[1], create_backup)

NextRT ==
  \/ Tick(MaxClockRT)
  \/ \E cb \in BOOLEAN : SaveHeld("sm", cb)
  \/ \E m \in Managers : LoadState(m)

SpecRT == InitRT /\ [][NextRT]_vars

(* ------------- the manager's methods on either manager instance -------- *)
\* one manager creates the deployment; both instances (the orchestrator's and the
\* rollback controller's) load, change and query it
InitMgr ==
  /\ clock = 0
  /\ state_file = None
  /\ backups = [t \in {} |-> None]
  /\ current_state = [m \in Managers |-> None]
  /\ snapshots = [d \in {} |-> None]
  /\ staging = NoDirs
  /\ pc = AllIdle
  /\ last = NoCall
  /\ budget = MaxCallsMgr

NextMgr ==
  \/ CreateNewDeployment("sm", "docker")
  \/ \E m \in Managers : LoadState(m)
  \/ \E m \in Managers : UpdateStatus(m, "RUNNING")
  \/ \E m \in Managers : AddService(m, "web", Some("1.2"), <<80>>)
  \/ \E m \in Managers : UpdateServiceStatus(m, "web", "UNHEALTHY", TRUE)
  \/ \E m \in Managers, h \in Hashes : SetEnvironmentHash(m, "web", h)
  \/ \E m \in Managers, h \in Hashes : RequiresUpdate(m, "web", h)

SpecMgr == InitMgr /\ [][NextMgr]_vars

(* ------------------------- the snapshot directory ---------------------- *)
\* the deployments snapshots are taken for
SnapIds == {DeploymentId(i) : i \in 0..MaxIdSnap}

\* what a capture finds on the VM: every file, or all but the state marker
Captures == {RemoteFiles, RemoteFiles \ {"_opt_deployment-state.yml"}}

\* the snapshot directory after create_snapshot was called for the first k
\* deployments, one after the other
RECURSIVE DirAfter(_)
DirAfter(k) ==
  IF k = 0 THEN [d \in {} |-> None]
  ELSE LET id == DeploymentId(k - 1)
           written == [d \in DOMAIN DirAfter(k - 1) \cup {id} |->
                         IF d = id THEN snapshot_archive(id, {}, <<>>, 0, k)
                         ELSE DirAfter(k - 1)[d]]
       IN create_snapshot(DirAfter(k - 1), id, RemoteFiles,
                          <<"Snapshot for deployment", id>>, "none",
                          CHOOSE o \in MtimeOrders(written) : TRUE, 0).snaps

\* a tenant with up to SnapshotKeep snapshots taken so far
InitSnap ==
  /\ clock = 0
  /\ state_file = None
  /\ backups = [t \in {} |-> None]
  /\ current_state = [m \in Managers |-> None]
  /\ \E k \in 0..SnapshotKeep : snapshots = DirAfter(k)
  /\ staging = NoDirs
  /\ pc = AllIdle
  /\ last = NoCall
  /\ budget = MaxCallsSnap

NextSnap ==
  \/ Tick(MaxClockSnap)
  \/ CreateNewDeployment("sm", "docker")
  \/ \E d \in SnapIds, c \in Captures, fail \in {"none", "pruning"} :
       CreateSnapshot(d, c, fail)
  \/ \E d \in SnapIds, fail \in CreateFailures :
       CreatePreDeploymentSnapshot(d, RemoteFiles, fail)
  \/ \E d \in SnapIds, ok \in BOOLEAN, failing \in UploadFailures :
       RestoreSnapshot(d, ok, failing)
  \/ ListSnapshots

SpecSnap == InitSnap /\ [][NextSnap]_vars

(* --------------------- the secrets directory on the VM ------------------ *)
InitSec ==
  /\ clock = 0
  /\ state_file = None
  /\ backups = [t \in {} |-> None]
  /\ current_state = [m \in Managers |-> None]
  /\ snapshots = [d \in {} |-> None]
  /\ staging = NoDirs
  /\ pc = AllIdle
  /\ last = NoCall
  /\ budget = MaxCallsSec

NextSec ==
  \/ \E fail \in TransferFailures : TransferToVm(fail)
  \/ \E fail \in InjectFailures, rc \in {0, 1} : DecryptAndInjectOnVm(fail, rc)
  \/ \E tf \in TransferFailures, jf \in InjectFailures, rc \in {0, 1} :
       DeploySecretsToVm(tf, jf, rc)

SpecSec == InitSec /\ [][NextSec]_vars

(* -------------- two rollback_deployment invocations, step by step ------ *)
\* Two controllers, each with its own DeploymentStateManager m, run
\* rollback_deployment(verify_health=False) for the tenant; one action is one
\* statement of lines 376-423, and the statements of the two interleave
At(m, at) == pc[m].at = at

Goto(m, at) == pc' = [pc EXCEPT ![m].at = at]

\* lines 376-379: can_rollback (which loads the record), raise when not eligible
RbCheck(m) ==
  /\ At(m, "idle")
  /\ LET L == load_state(state_file, current_state[m])
         can == can_rollback(L.ret)
     IN /\ current_state' = [current_state EXCEPT ![m] = L.current]
        /\ Goto(m, IF can.ok THEN "checked" ELSE "rejected")
        /\ last' = [Call("can_rollback", m, <<>>, Some(can.ok),
                         IF can.ok THEN "" ELSE "RollbackError")
                    EXCEPT !.msg = IF can.ok THEN "" ELSE Get(can.reason)]
  /\ UNCHANGED <<clock, state_file, backups, snapshots, staging, budget>>

\* line 382: mark_rollback_started
RbMarkStarted(m) ==
  /\ At(m, "checked")
  /\ Persist(m, save_state(state_file, backups,
                           update_status(Get(current_state[m]), "ROLLING_BACK"),
                           TRUE, clock))
  /\ Goto(m, "started")
  /\ last' = Call("mark_rollback_started", m, <<>>, None, "")
  /\ UNCHANGED <<clock, snapshots, staging, budget>>

\* lines 385-404: get_previous_state and the search of list_snapshots
RbResolve(m) ==
  /\ At(m, "started")
  /\ LET previous_state == get_previous_state(current_state[m], backups)
         listing == list_snapshots(snapshots)
         hits == IF previous_state = None THEN {}
                 ELSE {i \in 1..Len(listing) :
                         listing[i].deployment_id = Get(previous_state).deployment_id}
     IN IF hits = {}
        THEN /\ Goto(m, "failed")
             /\ last' = [Call("rollback_deployment", m, <<FALSE>>, None, "RollbackError")
                         EXCEPT !.msg = IF previous_state = None
                                        THEN "Previous deployment state not found"
                                        ELSE "Snapshot not found for deployment"]
        ELSE /\ pc' = [pc EXCEPT ![m].at = "resolved",
                                 ![m].matching_snapshot =
                                   Some(listing[CHOOSE i \in hits :
                                                  \A j \in hits : i <= j].snapshot_file)]
             /\ last' = Call("get_previous_state", m, <<>>, previous_state, "")
  /\ UNCHANGED <<clock, state_file, backups, current_state, snapshots, staging, budget>>

\* line 407: _stop_services
RbStop(m, stop_rc, kill_rc) ==
  /\ At(m, "resolved")
  /\ stop_rc = 0 => kill_rc = 0
  /\ pc' = [pc EXCEPT ![m].at = "stopped", ![m].issued = TRUE]
  /\ last' = [Call("_stop_services", m, <<>>, None, "")
              EXCEPT !.calls = stop_services(stop_rc, kill_rc)]
  /\ UNCHANGED <<clock, state_file, backups, current_state, snapshots, staging, budget>>

\* line 410: restore_snapshot(matching_snapshot)
RbRestore(m, extract_ok, failing) ==
  /\ At(m, "stopped")
  /\ ~extract_ok => failing = {}
  /\ LET R == restore_snapshot(snapshots, Get(pc[m].matching_snapshot), extract_ok,
                               failing)
     IN /\ Goto(m, IF R.raised THEN "failed" ELSE "restored")
        /\ last' = [Call(IF R.raised THEN "rollback_deployment" ELSE "restore_snapshot",
                         m, <<Get(pc[m].matching_snapshot)>>, R.ret,
                         IF R.raised THEN "RollbackError" ELSE "")
                    EXCEPT !.calls = R.uploads,
                           !.msg = IF R.raised THEN "Failed to restore snapshot" ELSE ""]
  /\ staging' = restore_snapshot_staging(staging, snapshots,
                                         Get(pc[m].matching_snapshot), extract_ok, clock)
  /\ UNCHANGED <<clock, state_file, backups, current_state, snapshots, budget>>

\* line 413: _restart_services raises when the command returns non-zero
RbRestart(m, restart_rc) ==
  /\ At(m, "restored")
  /\ Goto(m, IF restart_rc = 0 THEN "restarted" ELSE "failed")
  /\ last' = [Call(IF restart_rc = 0 THEN "_restart_services" ELSE "rollback_deployment",
                   m, <<>>, None, IF restart_rc = 0 THEN "" ELSE "RollbackError")
              EXCEPT !.calls = <<Cmd("docker compose up -d", restart_rc)>>,
                     !.msg = IF restart_rc = 0 THEN "" ELSE "Failed to restart services"]
  /\ UNCHANGED <<clock, state_file, backups, current_state, snapshots, staging, budget>>

\* lines 419-423: mark_rollback_complete, return True
RbComplete(m) ==
  /\ At(m, "restarted")
  /\ Persist(m, save_state(state_file, backups,
                           update_status(Get(current_state[m]), "ROLLED_BACK"),
                           TRUE, clock))
  /\ Goto(m, "done")
  /\ last' = Call("rollback_deployment", m, <<FALSE>>, Some(TRUE), "")
  /\ UNCHANGED <<clock, snapshots, staging, budget>>

\* the tenant when the two invocations begin: a first deployment made at second
\* 0, its snapshot taken at second 1 before the second deployment was made, the
\* second deployment RUNNING since second 2; both controllers freshly constructed
InitRace ==
  LET none == [t \in {} |-> None]
      first == save_state(None, none, new_deployment(None, "docker", 0), TRUE, 0)
      second == save_state(first.file, first.backups,
                           new_deployment(first.current, "docker", 1), TRUE, 1)
      running == save_state(second.file, second.backups,
                            update_status(Get(second.current), "RUNNING"), TRUE, 2)
      taken == create_snapshot([d \in {} |-> None], DeploymentId(0), RemoteFiles,
                               <<"Pre-deployment snapshot for", DeploymentId(0)>>,
                               "none", <<DeploymentId(0)>>, 1)
  IN /\ clock = RaceStart
     /\ state_file = running.file
     /\ backups = running.backups
     /\ current_state = [m \in Managers |-> None]
     /\ snapshots = taken.snaps
     /\ staging = NoDirs
     /\ pc = AllIdle
     /\ last = NoCall
     /\ budget = 0

NextRace ==
  \/ Tick(MaxClockRace)
  \/ \E m \in Managers : RbCheck(m)
  \/ \E m \in Managers : RbMarkStarted(m)
  \/ \E m \in Managers : RbResolve(m)
  \/ \E m \in Managers, stop_rc \in {0, 1}, kill_rc \in {0, 1} : RbStop(m, stop_rc, kill_rc)
  \/ \E m \in Managers, ok \in BOOLEAN, failing \in UploadFailures : RbRestore(m, ok, failing)
  \/ \E m \in Managers, rc \in {0, 1} : RbRestart(m, rc)
  \/ \E m \in Managers : RbComplete(m)

SpecRace == InitRace /\ [][NextRace]_vars

(* ============================== claims ================================= *)
\* two DeploymentState records agree in every field except updated_at
EqualExceptUpdatedAt(a, b) ==
  [a EXCEPT !.updated_at = IsoNow(0)] = [b EXCEPT !.updated_at = IsoNow(0)]

\* the records the store held when the last call began
StoredBefore ==
  (IF last.before.state_file = None THEN {} ELSE {Get(last.before.state_file)})
    \cup {last.before.backups[t] : t \in DOMAIN last.before.backups}

\* C1: in every reachable state the record in memory (of either manager) and the
\* persisted record have rollback_available equal to "previous_deployment_id is set"
C1_RollbackAvailableIffPrevious ==
  /\ \A m \in Managers :
       current_state[m] # None =>
         (Get(current_state[m]).rollback_available
            = (Get(current_state[m]).previous_deployment_id # None))
  /\ state_file # None =>
       (Get(state_file).rollback_available
          = (Get(state_file).previous_deployment_id # None))

\* a second deployment, with a service, whose record points at its predecessor
C1_Witness ==
  /\ state_file # None
  /\ Get(state_file).rollback_available
  /\ Get(state_file).previous_deployment_id # None
  /\ DOMAIN Get(state_file).services # {}
  /\ current_state["sm"] # None
  /\ Get(current_state["sm"]).rollback_available

\* C2: a create_new_deployment call returns a deployment_id that no record of the
\* store (the current record, hence its own previous_deployment_id, or a backup)
\* carried when it was called
C2_DeploymentIdIsFresh ==
  last.op = "create_new_deployment" =>
    \A rec \in StoredBefore : rec.deployment_id # Get(last.ret).deployment_id

\* C3: create_new_deployment returns the record it persisted, INITIALIZING, linked
\* to the record persisted before the call (unlinked, no rollback, on an empty store)
C3_CreateLinksToPersisted ==
  last.op = "create_new_deployment" =>
    LET new == Get(last.ret)
        old == last.before.state_file
    IN /\ state_file = Some(to_dict(new))
       /\ Get(state_file).status = "initializing"
       /\ new.status = "INITIALIZING"
       /\ IF old = None
          THEN new.previous_deployment_id = None /\ ~new.rollback_available
          ELSE /\ new.previous_deployment_id = Some(Get(old).deployment_id)
               /\ new.rollback_available

\* a deployment created over an older one, a second later
C3_Witness ==
  /\ last.op = "create_new_deployment"
  /\ Get(last.ret).previous_deployment_id = Some(DeploymentId(0))
  /\ Get(last.ret).deployment_id = DeploymentId(1)
  /\ Get(last.ret).rollback_available
  /\ state_file = Some(to_dict(Get(last.ret)))

\* C4: load_state right after save_state(state) returns state, updated_at aside
C4_SaveLoadRoundTrip ==
  [][(last.op = "save_state" /\ last'.op = "load_state") =>
       /\ last'.ret # None
       /\ EqualExceptUpdatedAt(Get(last'.ret), last.args[1])]_vars

\* a loaded record with a service in a non-default status, a failure count, a hash
\* and a previous deployment
C4_Witness ==
  /\ last.op = "load_state"
  /\ last.ret # None
  /\ Get(last.ret).status = "ROLLING_BACK"
  /\ Get(last.ret).previous_deployment_id # None
  /\ "web" \in DOMAIN Get(last.ret).services
  /\ Get(last.ret).services["web"].status = "UNHEALTHY"
  /\ Get(last.ret).services["web"].health_check_failures = 2
  /\ Get(last.ret).services["web"].environment_hash = Some("h1")
  /\ Get(state_file).status = "rolling_back"
  /\ Get(state_file).services["web"].status = "unhealthy"

\* C5: whenever a manager's current record (the persisted one) names a previous
\* deployment P, get_previous_state returns a record whose deployment_id is P
C5_PreviousStateRecoverable ==
  \A m \in Managers :
    (/\ current_state[m] # None
     /\ state_file = Some(to_dict(Get(current_state[m])))
     /\ Get(current_state[m]).previous_deployment_id # None)
    => LET prev == get_previous_state(current_state[m], backups)
       IN /\ prev # None
          /\ Get(prev).deployment_id = Get(Get(current_state[m]).previous_deployment_id)

\* the last call was one manager call that went through save_state(create_backup=True)
SavedWithBackup ==
  /\ last.err = ""
  /\ \/ last.op = "create_new_deployment"
     \/ /\ last.op \in {"update_status", "add_service", "mark_rollback_started",
                        "mark_rollback_complete"}
        /\ last.before.current_state[last.mgr] # None
     \/ /\ last.op \in {"update_service_status", "set_environment_hash"}
        /\ last.before.current_state[last.mgr] # None
        /\ last.args[1] \in DOMAIN Get(last.before.current_state[last.mgr]).services
     \/ /\ last.op = "save_state"
        /\ last.args[2]

\* C6: a save with create_backup over a persisted record R leaves a backup equal
\* to R as it was before the call, and the saved record persisted
C6_BackupBeforeOverwrite ==
  (SavedWithBackup /\ last.before.state_file # None) =>
    /\ \E t \in DOMAIN backups : backups[t] = Get(last.before.state_file)
    /\ state_file = Some(to_dict(Get(current_state[last.mgr])))
    /\ last.op = "save_state" =>
         EqualExceptUpdatedAt(from_dict(Get(state_file)), last.args[1])

\* a save that changed the persisted record, whose old version is now a backup
C6_Witness ==
  /\ last.op = "save_state"
  /\ last.args[2]
  /\ state_file # None
  /\ \E t \in DOMAIN backups :
       /\ backups[t] = Get(last.before.state_file)
       /\ backups[t].deployment_id = Get(state_file).deployment_id
       /\ backups[t].updated_at # Get(state_file).updated_at
       /\ backups[t].status = "running"

\* C7: after BackupKeep + 1 saves with create_backup the backup directory holds
\* exactly BackupKeep files
C7_ExactlyKeepBackups ==
  SavesRet = BackupKeep + 1 => Cardinality(DOMAIN backups) = BackupKeep

\* C8: can_rollback says yes exactly when a persisted record exists, has
\* rollback_available and is neither ROLLING_BACK nor ROLLED_BACK, gives a reason
\* otherwise, and for a first deployment just created the reason is the missing
\* previous deployment; the manager holds the reloaded record
C8_CanRollback ==
  last.op = "can_rollback" =>
    LET r == Get(last.ret)
    IN /\ r.ok = (/\ state_file # None
                  /\ Get(state_file).rollback_available
                  /\ Get(state_file).status \notin {"rolling_back", "rolled_back"})
       /\ r.ok => r.reason = None
       /\ ~r.ok => r.reason # None
       /\ state_file # None => current_state["rb"] = Some(from_dict(Get(state_file)))
       /\ state_file = last.before.state_file
       /\ (/\ state_file # None
           /\ Get(state_file).previous_deployment_id = None
           /\ Get(state_file).status = "initializing")
          => r = [ok |-> FALSE, reason |-> Some("No previous deployment available")]

\* can_rollback refusing a deployment that was rolled back already
C8_Witness ==
  /\ last.op = "can_rollback"
  /\ Get(last.ret) = [ok |-> FALSE, reason |-> Some("Already rolled back")]
  /\ Get(state_file).rollback_available

\* the commands of a rollback that are calls of restore_snapshot / restarts
Restores(calls) == {i \in DOMAIN calls : calls[i].cmd = "restore_snapshot"}
Restarts(calls) == {i \in DOMAIN calls : calls[i].cmd = "docker compose up -d"}

\* the record rollback_deployment found was eligible for a rollback
FoundEligible ==
  /\ last.before.state_file # None
  /\ Get(last.before.state_file).rollback_available
  /\ Get(last.before.state_file).status \notin {"rolling_back", "rolled_back"}

\* C9: rollback_deployment on a rollback-eligible record with previous deployment
\* X and a snapshot of X, every remote command succeeding, restores exactly that
\* snapshot once and ends ROLLED_BACK
C9_RollbackRestoresPrevious ==
  (/\ last.op = "rollback_deployment"
   /\ FoundEligible
   /\ Get(last.before.state_file).previous_deployment_id # None
   /\ Get(Get(last.before.state_file).previous_deployment_id)
        \in DOMAIN last.before.snapshots
   /\ \A i \in DOMAIN last.calls :
        /\ last.calls[i].rc = 0
        /\ last.calls[i].out \in {"", "all_running"})
  => /\ last.ret = Some(TRUE)
     /\ Cardinality(Restores(last.calls)) = 1
     /\ \A i \in Restores(last.calls) :
          last.calls[i].arg = Get(last.before.state_file).previous_deployment_id
     /\ Get(state_file).status = "rolled_back"

\* C10: a rollback_deployment call that passed the eligibility check and then
\* failed raised one RollbackError, left the persisted status ROLLING_BACK and
\* tried no step twice
C10_FailedRollbackStaysRollingBack ==
  (/\ last.op = "rollback_deployment"
   /\ FoundEligible
   /\ last.ret # Some(TRUE))
  => /\ last.err = "RollbackError"
     /\ last.ret = None
     /\ Get(state_file).status = "rolling_back"
     /\ current_state["rb"] = Some(from_dict(Get(state_file)))
     /\ Cardinality(Restores(last.calls)) <= 1
     /\ Cardinality(Restarts(last.calls)) <= 1

\* a rollback to an older deployment that stopped the services, restored the
\* snapshot and then failed to restart them
C10_Witness ==
  /\ last.op = "rollback_deployment"
  /\ last.err = "RollbackError"
  /\ last.msg = "Failed to restart services"
  /\ Cardinality(Restores(last.calls)) = 1
  /\ Get(state_file).status = "rolling_back"
  /\ Get(state_file).previous_deployment_id = Some(DeploymentId(0))
  /\ Get(state_file).deployment_id = DeploymentId(1)

\* C11: a rollback_deployment call on a store that is not eligible (no record, no
\* rollback_available, ROLLING_BACK or ROLLED_BACK) raised RollbackError, issued no
\* remote command and left the state file, the backups and the snapshots as found
C11_IneligibleRollbackFailsFast ==
  (last.op = "rollback_deployment" /\ ~FoundEligible)
  => /\ last.err = "RollbackError"
     /\ last.ret = None
     /\ last.calls = <<>>
     /\ state_file = last.before.state_file
     /\ backups = last.before.backups
     /\ snapshots = last.before.snapshots

\* a rollback refused because an earlier one left the status at ROLLING_BACK
C11_Witness ==
  /\ last.op = "rollback_deployment"
  /\ last.err = "RollbackError"
  /\ last.msg = "Rollback already in progress"
  /\ last.calls = <<>>
  /\ Get(state_file).status = "rolling_back"
  /\ Get(state_file).rollback_available
  /\ state_file = last.before.state_file

\* C12: a rollback_deployment call that changed the persisted status (to
\* ROLLING_BACK, and from there to ROLLED_BACK) found it RUNNING, DEGRADED or FAILED
C12_RollbackOnlyFromRunningDegradedFailed ==
  (/\ last.op = "rollback_deployment"
   /\ last.before.state_file # None
   /\ Get(state_file).status # Get(last.before.state_file).status)
  => /\ Get(state_file).status \in {"rolling_back", "rolled_back"}
     /\ Get(last.before.state_file).status \in {"running", "degraded", "failed"}

\* the last call was update_service_status / set_environment_hash on a loaded
\* record that has the service
OnKnownService ==
  /\ last.before.current_state[last.mgr] # None
  /\ last.args[1] \in DOMAIN Get(last.before.current_state[last.mgr]).services

\* the records held in memory, as persisted
HeldRecords ==
  {to_dict(Get(current_state[m])) : m \in {k \in Managers : current_state[k] # None}}

\* C13: every HEALTHY service of every record (in memory, persisted, backed up)
\* has health_check_failures = 0; update_service_status to HEALTHY leaves 0, to
\* another status with increment_failures adds exactly 1 (nothing without it),
\* and add_service starts the service at 0
C13_HealthyMeansNoFailures ==
  /\ \A rec \in HeldRecords \cup {backups[t] : t \in DOMAIN backups}
                \cup (IF state_file = None THEN {} ELSE {Get(state_file)}) :
       \A n \in DOMAIN rec.services :
         rec.services[n].status = "healthy" => rec.services[n].health_check_failures = 0
  /\ (last.op = "update_service_status" /\ OnKnownService) =>
       LET old == Get(last.before.current_state[last.mgr]).services[last.args[1]]
           new == Get(current_state[last.mgr]).services[last.args[1]]
       IN /\ new.status = last.args[2]
          /\ new.health_check_failures =
               IF last.args[2] = "HEALTHY" THEN 0
               ELSE IF last.args[3] THEN old.health_check_failures + 1
               ELSE old.health_check_failures
          /\ Get(state_file).services[last.args[1]] = ServiceState_to_dict(new)
  /\ (last.op = "add_service" /\ last.err = "") =>
       /\ Get(current_state[last.mgr]).services[last.args[1]].health_check_failures = 0
       /\ Get(state_file).services[last.args[1]].health_check_failures = 0

\* Scenario E: a service that failed a health check is reported HEALTHY again
C13_Witness ==
  /\ last.op = "update_service_status"
  /\ last.args = <<"web", "HEALTHY", FALSE>>
  /\ OnKnownService
  /\ Get(last.before.current_state["sm"]).services["web"].status = "UNHEALTHY"
  /\ Get(last.before.current_state["sm"]).services["web"].health_check_failures = 1
  /\ Get(state_file).services["web"].status = "healthy"
  /\ Get(state_file).services["web"].health_check_failures = 0

\* the last call reported HEALTHY for a service that was HEALTHY already
HealthyAgain ==
  /\ last.op = "update_service_status"
  /\ last.args[2] = "HEALTHY"
  /\ OnKnownService
  /\ Get(last.before.current_state[last.mgr]).services[last.args[1]].status = "HEALTHY"

\* C14 as stated: update_service_status(name, HEALTHY) on a HEALTHY service
\* changes no field of the record or of its services besides the record's
\* updated_at
C14_HealthyAgainChangesOnlyUpdatedAt ==
  HealthyAgain =>
    /\ Get(current_state[last.mgr]).services[last.args[1]].health_check_failures = 0
    /\ EqualExceptUpdatedAt(Get(current_state[last.mgr]),
                            Get(last.before.current_state[last.mgr]))

\* C14 as amended: update_service_status(name, HEALTHY) on a HEALTHY service
\* leaves health_check_failures at 0 and changes no field besides the record's
\* updated_at and that service's last_updated, in memory and as persisted
C14_HealthyAgainChangesOnlyTimestamps ==
  HealthyAgain =>
    LET old == Get(last.before.current_state[last.mgr])
        new == Get(current_state[last.mgr])
        n   == last.args[1]
    IN /\ new.services[n].health_check_failures = 0
       /\ EqualExceptUpdatedAt(
            [new EXCEPT !.services[n].last_updated = old.services[n].last_updated],
            old)
       /\ state_file = Some(to_dict(new))

\* HEALTHY reported again a second later, with increment_failures set
C14_Witness ==
  /\ HealthyAgain
  /\ last.args[3]
  /\ Get(current_state[last.mgr]).services[last.args[1]].last_updated
       # Get(last.before.current_state[last.mgr]).services[last.args[1]].last_updated
  /\ Get(state_file).services[last.args[1]].health_check_failures = 0

\* C15: requires_update(name, h) answers true without a loaded record, for a
\* service the record does not have, for a service without a stored hash and for
\* a stored hash other than h, false for the stored hash h, and changes nothing
C15_RequiresUpdate ==
  last.op = "requires_update" =>
    LET cur  == current_state[last.mgr]
        n    == last.args[1]
        h    == last.args[2]
    IN /\ last.ret =
            Some(IF cur = None THEN TRUE
                 ELSE IF n \notin DOMAIN Get(cur).services THEN TRUE
                 ELSE IF Get(cur).services[n].environment_hash = None THEN TRUE
                 ELSE Get(Get(cur).services[n].environment_hash) # h)
       /\ current_state = last.before.current_state
       /\ state_file = last.before.state_file
       /\ backups = last.before.backups

\* the gate lets a redeploy skip a service whose hash is the stored one
C15_Witness ==
  /\ last.op = "requires_update"
  /\ last.ret = Some(FALSE)
  /\ Get(current_state[last.mgr]).services["web"].environment_hash = Some(last.args[2])

\* the four methods that change the loaded record
Mutators == {"update_status", "add_service", "update_service_status",
             "set_environment_hash"}

\* C20: update_status, add_service, update_service_status and
\* set_environment_hash called on a manager without a loaded record raise
\* ValueError (and only then) and leave state file, backups and both managers'
\* records as they were, also when a record is on disk
C20_NoActiveDeployment ==
  last.op \in Mutators =>
    /\ (last.err = "ValueError") = (last.before.current_state[last.mgr] = None)
    /\ last.err = "ValueError" =>
         /\ state_file = last.before.state_file
         /\ backups = last.before.backups
         /\ current_state = last.before.current_state
         /\ last.ret = None

\* the rollback controller's manager, which never loaded the record the other
\* manager persisted, is asked to set a hash
C20_Witness ==
  /\ last.op = "set_environment_hash"
  /\ last.mgr = "rb"
  /\ last.err = "ValueError"
  /\ state_file # None
  /\ "web" \in DOMAIN Get(state_file).services
  /\ current_state["rb"] = None

\* the number of archives written into the snapshot directory so far
SnapshotsWritten == NextMtime(snapshots) - 1

\* C16: once more than SnapshotKeep snapshots have been created, list_snapshots
\* returns exactly SnapshotKeep entries, the most recently created ones, newest
\* first
C16_ListsNewestKeepSnapshots ==
  SnapshotsWritten > SnapshotKeep =>
    LET L == list_snapshots(snapshots)
    IN /\ Len(L) = SnapshotKeep
       /\ \A i \in 1..Len(L) :
            snapshots[L[i].snapshot_file].mtime = SnapshotsWritten - (i - 1)

\* C17: an archive that existed when a call began is unchanged after it, or it
\* is gone because the pruning removed it as older than the SnapshotKeep kept
C17_SnapshotsImmutable ==
  \A d \in DOMAIN last.before.snapshots :
    IF d \in DOMAIN snapshots
    THEN snapshots[d] = last.before.snapshots[d]
    ELSE /\ Cardinality(DOMAIN snapshots) = SnapshotKeep
         /\ \A e \in DOMAIN snapshots :
              snapshots[e].mtime > last.before.snapshots[d].mtime

\* C18: a restore_snapshot call that got the archive extracted tried to upload
\* every captured file, and returned True only if no upload raised
C18_RestoreSucceedsOnlyIfUploadsDid ==
  (last.op = "restore_snapshot" /\ last.err = "") =>
    /\ {Get(last.calls[i].arg) : i \in DOMAIN last.calls}
         = snapshots[last.args[1]].files
    /\ last.ret = Some(TRUE) => \A i \in DOMAIN last.calls : last.calls[i].rc = 0

\* C19: create_pre_deployment_snapshot raises nothing, returns None exactly when
\* create_snapshot failed (at whatever stage) and the archive reference of the
\* deployment otherwise, and leaves the deployment state record alone
C19_PreDeploymentSnapshotIsBestEffort ==
  last.op = "create_pre_deployment_snapshot" =>
    /\ last.err = ""
    /\ (last.ret = None) = (last.args[2] # "none")
    /\ last.ret # None =>
         /\ last.ret = Some(last.args[1])
         /\ last.args[1] \in DOMAIN snapshots
         /\ snapshots[last.args[1]].metadata.deployment_id = last.args[1]
         /\ snapshots[last.args[1]].metadata.description
              = <<"Pre-deployment snapshot for", last.args[1]>>
    /\ state_file = last.before.state_file
    /\ backups = last.before.backups
    /\ current_state = last.before.current_state

\* a pre-deployment snapshot that failed while a deployment record is persisted
C19_Witness ==
  /\ last.op = "create_pre_deployment_snapshot"
  /\ last.args[2] = "archive"
  /\ last.ret = None
  /\ last.err = ""
  /\ state_file # None
  /\ snapshots = last.before.snapshots

\* C21: two manager instances share the store without a lock. A mutating call
\* writes the calling instance's own copy of the record: the file then holds the
\* services of that copy (and the one the call adds) and no other, whatever the
\* other instance persisted since the caller loaded -- which is how an update
\* persisted by one instance goes missing when the other one saves
C21_SaveWritesCallersCopy ==
  (last.op \in Mutators /\ last.err = "" /\ state_file # last.before.state_file) =>
    LET mine == Get(last.before.current_state[last.mgr])
        added == IF last.op = "add_service" THEN {last.args[1]} ELSE {}
    IN /\ state_file = Some(to_dict(Get(current_state[last.mgr])))
       /\ DOMAIN Get(state_file).services = DOMAIN mine.services \cup added

\* the lost update: the file held the service one instance had added, the other
\* instance (loaded before that) updated the status, and the service is gone
C21_Witness ==
  /\ last.op = "update_status"
  /\ last.mgr = "rb"
  /\ last.err = ""
  /\ last.before.state_file # None
  /\ "web" \in DOMAIN Get(last.before.state_file).services
  /\ Get(last.before.state_file).deployment_id = Get(state_file).deployment_id
  /\ "web" \notin DOMAIN Get(state_file).services

\* the stop commands of _stop_services
StopCmds == {"docker compose down", "docker compose kill"}

\* C22: the steps of one rollback_deployment come in a fixed order. No remote
\* command is issued unless the previous record and its snapshot were found, and
\* then the record is persisted as ROLLING_BACK (or, at the end, ROLLED_BACK); the
\* graceful stop is the first command, the one restore follows the stop commands,
\* the uploads and the restart follow the restore and need it to have succeeded,
\* the probe follows a restart that returned 0, and ROLLED_BACK is persisted only
\* after a restart that returned 0
C22_RollbackStepOrder ==
  last.op = "rollback_deployment" =>
    LET c == last.calls
    IN /\ last.msg \in {"Previous deployment state not found",
                        "Snapshot not found for deployment"} => c = <<>>
       /\ (last.ret = Some(TRUE) \/
           (state_file # None /\ Get(state_file).status = "rolled_back"
              /\ state_file # last.before.state_file))
            => \E i \in Restarts(c) : c[i].rc = 0
       /\ c # <<>> =>
            /\ Get(state_file).status \in {"rolling_back", "rolled_back"}
            /\ c[1].cmd = "docker compose down"
            /\ \E r \in Restores(c) :
                 /\ Restores(c) = {r}
                 /\ \A i \in 1..(r - 1) : c[i].cmd \in StopCmds
                 /\ \A i \in (r + 1)..Len(c) :
                      /\ c[i].cmd \notin StopCmds
                      /\ c[r].rc = 0
                 /\ \A i \in Restarts(c) :
                      \A j \in (r + 1)..(i - 1) : c[j].cmd = "scp_upload"
                 /\ \A i \in DOMAIN c :
                      c[i].cmd = "docker compose ps" =>
                        /\ i = Len(c)
                        /\ Restarts(c) = {i - 1}
                        /\ c[i - 1].rc = 0

\* a rollback that ran every step: stop, restore with its uploads, restart, probe
C22_Witness ==
  /\ last.op = "rollback_deployment"
  /\ last.ret = Some(TRUE)
  /\ Get(state_file).status = "rolled_back"
  /\ \E i \in DOMAIN last.calls : last.calls[i].cmd = "scp_upload"
  /\ last.calls[Len(last.calls)].cmd = "docker compose ps"

\* C24: the forced stop is issued exactly when the graceful stop returned
\* non-zero, right after it, and whatever the two exit statuses are the next
\* command is the restore
C24_ForcedStopIffGracefulFailed ==
  (last.op = "rollback_deployment" /\ last.calls # <<>>) =>
    LET c == last.calls
        kills == {i \in DOMAIN c : c[i].cmd = "docker compose kill"}
    IN /\ {i \in DOMAIN c : c[i].cmd = "docker compose down"} = {1}
       /\ kills = IF c[1].rc # 0 THEN {2} ELSE {}
       /\ Len(c) > Cardinality(kills) + 1
       /\ c[Cardinality(kills) + 2].cmd = "restore_snapshot"

\* graceful and forced stop both failed and the rollback went on to succeed
C24_Witness ==
  /\ last.op = "rollback_deployment"
  /\ Len(last.calls) > 2
  /\ last.calls[1].rc # 0
  /\ last.calls[2].cmd = "docker compose kill"
  /\ last.calls[2].rc # 0
  /\ last.ret = Some(TRUE)

\* C23: the health probe never changes the outcome: a rollback_deployment with
\* verify_health whose restart returned 0 returns True and persists ROLLED_BACK,
\* whatever the probe reads back
C23_ProbeNeverChangesOutcome ==
  (/\ last.op = "rollback_deployment"
   /\ last.args = <<TRUE>>
   /\ \E i \in Restarts(last.calls) : last.calls[i].rc = 0)
    => /\ last.ret = Some(TRUE)
       /\ last.err = ""
       /\ Get(state_file).status = "rolled_back"

\* C25: when create_snapshot (also called through create_pre_deployment_snapshot)
\* or restore_snapshot has returned or raised, at whatever stage, the temporary
\* directory of that call does not exist
C25_StagingRemoved ==
  /\ last.op \in {"create_snapshot", "create_pre_deployment_snapshot"} =>
       snapshot_temp_dir(last.args[1]) \notin DOMAIN staging
  /\ last.op = "restore_snapshot" => restore_temp_dir(clock) \notin DOMAIN staging

\* a snapshot that failed after its temporary directory was filled
C25_Witness ==
  /\ last.op = "create_pre_deployment_snapshot"
  /\ last.args[2] = "archive"
  /\ last.ret = None
  /\ snapshot_temp_dir(last.args[1]) \notin DOMAIN staging

\* C26: when decrypt_and_inject_on_vm has returned or raised, at whatever step,
\* the remote temporary directory with the encrypted bundle, the decrypted archive
\* and the key is gone (a cleanup command that was issued having returned 0)
C26_RemoteSecretsRemoved ==
  (/\ last.op = "decrypt_and_inject_on_vm"
   /\ \A i \in DOMAIN last.calls :
        last.calls[i].cmd = "rm -rf" => last.calls[i].rc = 0)
    => remote_temp_dir \notin DOMAIN staging

\* the manager methods that change the record and persist it
PersistingMethods ==
  Mutators \cup {"create_new_deployment", "mark_rollback_started",
                 "mark_rollback_complete"}

\* the last call found a record loaded and, where it names a service, the service
ChangedTheRecord ==
  /\ last.op = "create_new_deployment" \/ last.before.current_state[last.mgr] # None
  /\ last.op \in {"update_service_status", "set_environment_hash"} => OnKnownService

\* C27: after a manager method that changes the record has returned without
\* error, the record in the state file, read back, equals the manager's in-memory
\* record in every field; a call that found nothing to change left both alone
C27_PersistedEqualsInMemory ==
  (last.op \in PersistingMethods /\ last.err = "") =>
    IF ChangedTheRecord
    THEN /\ state_file # None
         /\ current_state[last.mgr] = Some(from_dict(Get(state_file)))
         /\ state_file = Some(to_dict(Get(current_state[last.mgr])))
    ELSE /\ state_file = last.before.state_file
         /\ current_state = last.before.current_state

\* a status update a second after the record was last written: file and memory
\* both carry the new status and the new updated_at
C27_Witness ==
  /\ last.op = "update_status"
  /\ last.err = ""
  /\ last.before.state_file # None
  /\ Get(last.before.state_file).updated_at # IsoNow(clock)
  /\ Get(state_file).status # Get(last.before.state_file).status
  /\ Get(current_state[last.mgr]).updated_at = IsoNow(clock)

\* C28: a rollback_deployment that returned True changed only status (now
\* ROLLED_BACK) and updated_at of the current record, in the file and in the
\* controller's manager: the record is not replaced by the previous deployment's
C28_RollbackChangesOnlyStatus ==
  (last.op = "rollback_deployment" /\ last.ret = Some(TRUE)) =>
    LET was == from_dict(Get(last.before.state_file))
        is == from_dict(Get(state_file))
    IN /\ is = [was EXCEPT !.status = "ROLLED_BACK", !.updated_at = is.updated_at]
       /\ current_state[last.mgr] = Some(is)

\* a successful rollback of a deployment that is not its own predecessor, a
\* second or more after the record was written
C28_Witness ==
  /\ last.op = "rollback_deployment"
  /\ last.ret = Some(TRUE)
  /\ Get(state_file).previous_deployment_id # Some(Get(state_file).deployment_id)
  /\ Get(state_file).updated_at # Get(last.before.state_file).updated_at
  /\ Get(state_file).status = "rolled_back"

\* C29: right after create_new_deployment the services map of the current record
\* is empty, in memory and in the file, so requires_update is true for every
\* service name and hash: nothing of the previous record's services is carried over
C29_NewDeploymentHasNoServices ==
  last.op = "create_new_deployment" =>
    /\ DOMAIN Get(current_state[last.mgr]).services = {}
    /\ DOMAIN Get(state_file).services = {}
    /\ \A n \in Names, h \in Hashes : requires_update(current_state[last.mgr], n, h)

\* a new deployment created over a record whose service had a stored hash
C29_Witness ==
  /\ last.op = "create_new_deployment"
  /\ last.before.state_file # None
  /\ "web" \in DOMAIN Get(last.before.state_file).services
  /\ Get(last.before.state_file).services["web"].environment_hash \in
       {Some(h) : h \in Hashes}
  /\ requires_update(current_state[last.mgr], "web",
                     Get(Get(last.before.state_file).services["web"].environment_hash))

\* C30: two rollback_deployment invocations for the tenant never both run the
\* stop / restore / restart sequence: at most one of them ever issues a remote
\* command, the other being rejected by the eligibility check
C30_OnlyOneRollbackRuns ==
  ~(\A m \in Managers : pc[m].issued)

====
